---- MODULE Spec2Model ----
(***************************************************************************)
(* Model of the scene-list submission worker (src/src/index.ts).           *)
(*                                                                         *)
(* One request is handled by the exported fetch handler: routing, the      *)
(* optional shared-secret check, body parsing and validation are local;    *)
(* then the installation token is minted and seven repository calls are    *)
(* issued in sequence.  Every outbound call is recorded in calls[r]; the   *)
(* remote service's answers are inputs drawn with \E.                      *)
(*                                                                         *)
(* Strings on which the code does character work (trim, startsWith,        *)
(* includes, regex, length, URL encoding) are sequences of one-character   *)
(* strings.                                                                *)
(***************************************************************************)
EXTENDS Integers, Sequences, FiniteSets, TLC

\* ------------------------------------------------------------------ bounds
MaxReq == 2
MaxClock == 1
MaxMovies == 2

\* Invocations of the handler.  They share the configuration and the clock
\* and nothing else.
Reqs == 1..MaxReq

\* Spec follows one invocation through every input
Solo == {1}

\* ------------------------------------------------------- program constants
SchemaVersion == 2
MaxScenes == 2500
MaxPathLen == 180
MaxBytes == 900000

OWNER == <<"M","a","g","i","c","W","a","g","o","n">>
REPO == <<"s","c","e","n","e","-","l","i","s","t","s">>

\* "scenejsons/" and ".json" of sanitizeScenePath, "index.json",
\* "bleepr/upload/" of the branch name, "main" the fallback default branch
ScenePrefix == <<"s","c","e","n","e","j","s","o","n","s","/">>
SceneExt == <<".","j","s","o","n">>
IndexPath == <<"i","n","d","e","x",".","j","s","o","n">>
BranchPrefix == <<"b","l","e","e","p","r","/","u","p","l","o","a","d","/">>
MainBranch == <<"m","a","i","n">>
SubmitPath == <<"/","s","u","b","m","i","t","-","s","c","e","n","e">>
BearerPrefix == <<"B","e","a","r","e","r"," ">>

\* --------------------------------------------------------- string helpers
IsSpace(c) == c \in {" ", "\t", "\n"}

RECURSIVE TrimLeft(_)
TrimLeft(s) == IF s # <<>> /\ IsSpace(Head(s)) THEN TrimLeft(Tail(s)) ELSE s

RECURSIVE TrimRight(_)
TrimRight(s) ==
    IF s # <<>> /\ IsSpace(s[Len(s)]) THEN TrimRight(SubSeq(s, 1, Len(s) - 1)) ELSE s

\* String.prototype.trim
Trim(s) == TrimRight(TrimLeft(s))

\* String.prototype.toLowerCase, on the letters the inputs use
LowerChar(c) ==
    CASE c = "T" -> "t"
      [] c = "X" -> "x"
      [] c = "S" -> "s"
      [] OTHER -> c

ToLowerCase(s) == [i \in 1..Len(s) |-> LowerChar(s[i])]

StartsWith(s, p) == Len(s) >= Len(p) /\ SubSeq(s, 1, Len(p)) = p

EndsWith(s, p) == Len(s) >= Len(p) /\ SubSeq(s, Len(s) - Len(p) + 1, Len(s)) = p

Includes(s, p) == \E i \in 1..(Len(s) - Len(p) + 1) : SubSeq(s, i, i + Len(p) - 1) = p

IsDigit(c) == c \in {"0","1","2","3","4","5","6","7","8","9"}

DigitChar(d) == <<"0","1","2","3","4","5","6","7","8","9">>[d + 1]

\* decimal rendering of a non-negative integer (template literal ${Date.now()})
RECURSIVE ToDigits(_)
ToDigits(n) == IF n < 10 THEN <<DigitChar(n)>> ELSE ToDigits(n \div 10) \o <<DigitChar(n % 10)>>

\* A JSON/environment field that may be undefined: [def, s].
\* OrEmpty models String(x || "") for such a field.
Undef == [def |-> FALSE, s |-> <<>>]
Str(s) == [def |-> TRUE, s |-> s]
OrEmpty(v) == IF v.def THEN v.s ELSE <<>>

\* normalizeWorkerPath: drop one trailing slash
normalizeWorkerPath(pathname) ==
    IF EndsWith(pathname, <<"/">>) THEN SubSeq(pathname, 1, Len(pathname) - 1) ELSE pathname

\* sanitizeScenePath: the trimmed path, or Null (<<>> stands for null: the
\* empty string is rejected by the first test, so it is never a result)
sanitizeScenePath(scenePath) ==
    LET p == Trim(scenePath) IN
    IF p = <<>> THEN <<>>
    ELSE IF StartsWith(p, <<"/">>) \/ Includes(p, <<"\\">>) \/ Includes(p, <<".", ".">>) THEN <<>>
    ELSE IF ~StartsWith(p, ScenePrefix) THEN <<>>
    ELSE IF ~EndsWith(p, SceneExt) THEN <<>>
    ELSE IF Len(p) > MaxPathLen THEN <<>>
    ELSE p

\* The URL parser applied by fetch to `.../contents/${scenePath}` (line 193,
\* the path is interpolated without encoding): the path ends at the first
\* "?" or "#"
UrlPathPart(s) ==
    LET ends == {i \in 1..Len(s) : s[i] \in {"?", "#"}}
    IN  IF ends = {} THEN s
        ELSE SubSeq(s, 1, (CHOOSE i \in ends : \A j \in ends : i <= j) - 1)

\* The segments of a path, split at "/"
RECURSIVE Segments(_)
Segments(s) ==
    IF ~Includes(s, <<"/">>) THEN <<s>>
    ELSE LET i == CHOOSE i \in 1..Len(s) : s[i] = "/" /\ \A j \in 1..(i - 1) : s[j] # "/"
         IN  <<SubSeq(s, 1, i - 1)>> \o Segments(SubSeq(s, i + 1, Len(s)))

RECURSIVE Join(_)
Join(segs) ==
    IF segs = <<>> THEN <<>>
    ELSE IF Len(segs) = 1 THEN Head(segs)
    ELSE Head(segs) \o <<"/">> \o Join(Tail(segs))

\* The URL parser's dot segments: "." and "..", also written with %2e
SingleDots == {<<".">>, <<"%","2","e">>, <<"%","2","E">>}
IsSingleDot(seg) == seg \in SingleDots
IsDoubleDot(seg) == \E a \in SingleDots, b \in SingleDots : seg = a \o b

\* The URL parser drops "." segments and lets ".." remove the segment before
RECURSIVE RemoveDotSegments(_, _)
RemoveDotSegments(segs, out) ==
    IF segs = <<>> THEN out
    ELSE IF IsDoubleDot(Head(segs))
    THEN RemoveDotSegments(Tail(segs),
                           IF out = <<>> THEN <<>> ELSE SubSeq(out, 1, Len(out) - 1))
    ELSE IF IsSingleDot(Head(segs)) THEN RemoveDotSegments(Tail(segs), out)
    ELSE RemoveDotSegments(Tail(segs), Append(out, Head(segs)))

\* /repos/${OWNER}/${REPO}/contents of lines 193, 206, 230
ContentsRoot == << <<"r","e","p","o","s">>, OWNER, REPO, <<"c","o","n","t","e","n","t","s">> >>

\* The repository path addressed by the request to
\* https://api.github.com/repos/${OWNER}/${REPO}/contents/${scenePath}: the
\* part of the parsed URL path below contents/, or the whole path (with its
\* leading "/") when the URL no longer addresses the contents endpoint
ContentsPathOf(scenePath) ==
    LET segs == RemoveDotSegments(ContentsRoot \o Segments(UrlPathPart(scenePath)), <<>>)
    IN  IF Len(segs) >= 4 /\ SubSeq(segs, 1, 4) = ContentsRoot
        THEN Join(SubSeq(segs, 5, Len(segs)))
        ELSE <<"/">> \o Join(segs)

\* /^tt\d{7,9}$/
ImdbRegex(s) ==
    /\ Len(s) >= 9
    /\ Len(s) <= 11
    /\ s[1] = "t"
    /\ s[2] = "t"
    /\ \A i \in 3..Len(s) : IsDigit(s[i])


\* ------------------------------------------------------------------ inputs
\* Env: the worker's configuration.  importPKCS8 accepts only GoodPem.
GoodPem == <<"P","E","M">>
BadPem == <<"x">>
Secret == <<"k">>

Envs ==
    [ BLEEPR_SUBMIT_KEY : {Undef, Str(Secret), Str(Secret \o <<"\n">>)},
      GITHUB_APP_ID : {Undef, Str(<<" ">>), Str(<<"7">>)},
      GITHUB_PRIVATE_KEY_PEM : {Undef, Str(BadPem), Str(GoodPem)},
      GITHUB_INSTALLATION_ID : {Str(<<" ">>), Str(<<"9">>)} ]

\* Request line and authorization header
Methods == {"GET", "POST"}
Pathnames == {SubmitPath, SubmitPath \o <<"/">>, <<"/">>}
AuthHeaders == {Undef, Str(BearerPrefix \o Secret), Str(BearerPrefix \o <<"x">>)}

Requests == [method : Methods, pathname : Pathnames, authorization : AuthHeaders]

\* imdb_id values: valid, valid after trim and lower-casing, too few digits,
\* too many digits, a non-digit, undefined
Imdb7 == <<"t","t","1","2","3","4","5","6","7">>
ImdbUpper == <<" ","T","T","7","6","5","4","3","2","1"," ">>
ImdbShort == <<"t","t","1","2","3","4","5","6">>
ImdbLong == <<"t","t","1","2","3","4","5","6","7","8","9","0">>
ImdbAlpha == <<"t","t","1","2","3","x","5","6","7">>

\* A JSON object whose own toString and valueOf are not functions, such as
\* {"toString": 1, "valueOf": 1}: String(v) and Number(v) throw a TypeError
Obj == [def |-> TRUE, s |-> <<"[object]">>]

ToStringThrows(v) == v = Obj

ImdbValues ==
    {Undef, Str(Imdb7), Str(ImdbUpper), Str(ImdbShort), Str(ImdbLong), Str(ImdbAlpha), Obj}

\* scene_path values
PathGood == ScenePrefix \o <<"x">> \o SceneExt
PathPadded == <<" ">> \o ScenePrefix \o <<"y">> \o SceneExt \o <<" ">>
PathAbs == <<"/">> \o PathGood
PathDots == ScenePrefix \o <<".", ".", "/", "x">> \o SceneExt
PathBackslash == ScenePrefix \o <<"a", "\\", "x">> \o SceneExt
PathNoPrefix == <<"o","t","h","e","r","/","x">> \o SceneExt
PathNoExt == ScenePrefix \o <<"x",".","t","x","t">>
\* exactly MaxPathLen characters, and one more
PathQuery == ScenePrefix \o <<"x", "?">> \o SceneExt
PathEncodedDots == ScenePrefix \o <<"%","2","e","%","2","e","/","x">> \o SceneExt
PathAtLimit ==
    ScenePrefix \o [i \in 1..(MaxPathLen - Len(ScenePrefix) - Len(SceneExt)) |-> "a"] \o SceneExt
PathTooLong ==
    ScenePrefix \o [i \in 1..(MaxPathLen + 1 - Len(ScenePrefix) - Len(SceneExt)) |-> "a"] \o SceneExt

ScenePathValues ==
    {Undef, Str(<<" ">>), Str(PathGood), Str(PathPadded), Str(PathAbs), Str(PathDots),
     Str(PathBackslash), Str(PathNoPrefix), Str(PathNoExt), Str(PathAtLimit), Str(PathTooLong),
     Str(PathQuery), Str(PathEncodedDots), Obj}

\* scenes: not an array (or undefined), or an array of the given length
ScenesValues ==
    {[isArray |-> FALSE, length |-> 0]}
        \cup [isArray : {TRUE}, length : {0, 1, MaxScenes, MaxScenes + 1}]

\* title / video_duration_ms pairs carried into the index entry
TitleA == <<" ","A"," ">>
DateA == <<"d","1">>
MetaValues ==
    { [title |-> Undef, created_at |-> Undef, label |-> Undef, video_duration_ms |-> 0],
      [title |-> Str(TitleA), created_at |-> Str(DateA), label |-> Str(<<"L">>),
       video_duration_ms |-> 5],
      [title |-> Obj, created_at |-> Undef, label |-> Undef, video_duration_ms |-> 0],
      [title |-> Undef, created_at |-> Undef, label |-> Obj, video_duration_ms |-> 0] }

\* scene_list when it is a JSON object
SceneListObj(schema, imdb, scenes, meta) ==
    [t |-> "obj", schema_version |-> schema, imdb_id |-> imdb, scenes |-> scenes, meta |-> meta]

\* scene_list of another JavaScript type: undefined, null, a string, an array.
\* None of these has own fields: every field read yields undefined.
NoFields(t) ==
    [ t |-> t, schema_version |-> 0, imdb_id |-> Undef,
      scenes |-> [isArray |-> FALSE, length |-> 0],
      meta |-> [title |-> Undef, created_at |-> Undef, label |-> Undef, video_duration_ms |-> 0] ]

SceneListOthers == {NoFields("undef"), NoFields("null"), NoFields("str"), NoFields("arr")}

\* The request body: parsed is FALSE when request.json() throws; bytes is
\* the byte length of JSON.stringify(body).
ByteSizes == {100, MaxBytes, MaxBytes + 1}

UnparsedBody ==
    [parsed |-> FALSE, scene_list |-> NoFields("undef"), scene_path |-> Undef, bytes |-> 0]

ParsedBody(sl, path, bytes) ==
    [parsed |-> TRUE, scene_list |-> sl, scene_path |-> path, bytes |-> bytes]

MetaPlain == [title |-> Undef, created_at |-> Undef, label |-> Undef, video_duration_ms |-> 0]
OneScene == [isArray |-> TRUE, length |-> 1]

\* Bodies in which every field takes a passing or a failing value, in every
\* combination: the bodies that violate several rules at once.
CrossBodies ==
    { ParsedBody(SceneListObj(v, i, s, MetaPlain), p, n) :
        v \in {1, SchemaVersion},
        i \in {Str(Imdb7), Str(ImdbShort)},
        s \in {OneScene, [isArray |-> TRUE, length |-> 0],
               [isArray |-> TRUE, length |-> MaxScenes + 1]},
        p \in {Str(PathGood), Str(PathDots)},
        n \in {100, MaxBytes + 1} }

\* Bodies in which one field runs through all its values, the others passing.
VariantBodies ==
    { ParsedBody(SceneListObj(v, Str(Imdb7), OneScene, MetaPlain), Str(PathGood), 100) :
        v \in {0, 1, SchemaVersion} }
    \cup { ParsedBody(SceneListObj(SchemaVersion, i, OneScene, MetaPlain), Str(PathGood), 100) :
        i \in ImdbValues }
    \cup { ParsedBody(SceneListObj(SchemaVersion, Str(Imdb7), s, MetaPlain), Str(PathGood), 100) :
        s \in ScenesValues }
    \cup { ParsedBody(SceneListObj(SchemaVersion, Str(Imdb7), OneScene, MetaPlain), p, 100) :
        p \in ScenePathValues }
    \cup { ParsedBody(SceneListObj(SchemaVersion, Str(Imdb7), OneScene, MetaPlain), Str(PathGood), n) :
        n \in ByteSizes }
    \cup { ParsedBody(SceneListObj(SchemaVersion, Str(Imdb7), OneScene, m), Str(PathGood), 100) :
        m \in MetaValues }

\* Bodies whose scene_list is not a JSON object
OtherBodies ==
    { ParsedBody(sl, p, 100) : sl \in SceneListOthers, p \in {Undef, Str(PathGood)} }

Bodies == {UnparsedBody} \cup CrossBodies \cup VariantBodies \cup OtherBodies

\* --------------------------------------------------------------- responses
NoResponse == [kind |-> "none", status |-> 0, ok |-> FALSE, code |-> "", pr_url |-> <<>>]

\* new Response("not found", { status: 404 })
NotFound == [kind |-> "text", status |-> 404, ok |-> FALSE, code |-> "", pr_url |-> <<>>]

\* Variant: every error response carries status 400
jsonErrorAlways400(status, code) ==
    [kind |-> "json", status |-> 400, ok |-> FALSE, code |-> code, pr_url |-> <<>>]

\* jsonError, lines 13-18
jsonError(status, code) ==
    [kind |-> "json", status |-> status, ok |-> FALSE, code |-> code, pr_url |-> <<>>]

\* Response.json({ ok: true, pr_url })
jsonOk(prUrl) == [kind |-> "json", status |-> 200, ok |-> TRUE, code |-> "", pr_url |-> prUrl]

\* A TypeError thrown outside every try block: the handler's promise rejects
\* and the handler returns no response.  rule names the throwing statement.
Uncaught(rule) ==
    [kind |-> "uncaught", status |-> 0, ok |-> FALSE, code |-> rule, pr_url |-> <<>>]

\* ------------------------------------------------------- local processing
Routed(rq) == rq.method = "POST" /\ normalizeWorkerPath(rq.pathname) = SubmitPath

submitKeyOf(e) == Trim(OrEmpty(e.BLEEPR_SUBMIT_KEY))

\* Variant: any bearer header is accepted
AuthorizedAnyBearer(e, rq) ==
    submitKeyOf(e) # <<>> => StartsWith(OrEmpty(rq.authorization), BearerPrefix)

\* Lines 112-118
Authorized(e, rq) ==
    submitKeyOf(e) # <<>> => OrEmpty(rq.authorization) = BearerPrefix \o submitKeyOf(e)

\* typeof sceneList === "object" and sceneList truthy: objects and arrays
IsJsObject(sl) == sl.t \in {"obj", "arr"}

imdbIdOf(sl) == ToLowerCase(Trim(OrEmpty(sl.imdb_id)))

\* Variant: the size guardrail is tested before the other rules
ValidateSizeFirst(b) ==
    LET sceneList == b.scene_list IN
    IF ~b.parsed THEN jsonError(400, "bad_json")
    ELSE IF b.bytes > MaxBytes THEN jsonError(413, "payload_too_large")
    ELSE IF ~IsJsObject(sceneList) THEN jsonError(400, "bad_request")
    ELSE IF sceneList.schema_version # SchemaVersion THEN jsonError(400, "bad_schema")
    ELSE IF ToStringThrows(sceneList.imdb_id) THEN Uncaught("throw_imdb_id")
    ELSE IF ~ImdbRegex(imdbIdOf(sceneList)) THEN jsonError(400, "bad_imdb_id")
    ELSE IF ~sceneList.scenes.isArray \/ sceneList.scenes.length = 0
         THEN jsonError(400, "no_scenes")
    ELSE IF sceneList.scenes.length > MaxScenes THEN jsonError(400, "too_many_scenes")
    ELSE IF ToStringThrows(b.scene_path) THEN Uncaught("throw_scene_path")
    ELSE IF sanitizeScenePath(OrEmpty(b.scene_path)) = <<>> THEN jsonError(400, "bad_scene_path")
    ELSE NoResponse

\* The validation rules of fetch in source order: the first failing test
\* returns.  The result is the response, or NoResponse when all rules pass.
Validate(b) ==
    LET sceneList == b.scene_list IN
    IF ~b.parsed THEN jsonError(400, "bad_json")
    ELSE IF ~IsJsObject(sceneList) THEN jsonError(400, "bad_request")
    ELSE IF sceneList.schema_version # SchemaVersion THEN jsonError(400, "bad_schema")
    ELSE IF ToStringThrows(sceneList.imdb_id) THEN Uncaught("throw_imdb_id")
    ELSE IF ~ImdbRegex(imdbIdOf(sceneList)) THEN jsonError(400, "bad_imdb_id")
    ELSE IF ~sceneList.scenes.isArray \/ sceneList.scenes.length = 0
         THEN jsonError(400, "no_scenes")
    ELSE IF sceneList.scenes.length > MaxScenes THEN jsonError(400, "too_many_scenes")
    ELSE IF ToStringThrows(b.scene_path) THEN Uncaught("throw_scene_path")
    ELSE IF sanitizeScenePath(OrEmpty(b.scene_path)) = <<>> THEN jsonError(400, "bad_scene_path")
    ELSE IF b.bytes > MaxBytes THEN jsonError(413, "payload_too_large")
    ELSE NoResponse


\* The local stages of fetch that a request went through, in order
RuleOrder == <<"scene_list", "schema_version", "imdb_id", "scenes", "scene_path", "size">>

RuleIndex(code) ==
    CASE code = "bad_request" -> 1
      [] code = "bad_schema" -> 2
      [] code \in {"bad_imdb_id", "throw_imdb_id"} -> 3
      [] code \in {"no_scenes", "too_many_scenes"} -> 4
      [] code \in {"bad_scene_path", "throw_scene_path"} -> 5
      [] OTHER -> 6

StagesOf(b) ==
    IF ~b.parsed THEN <<"route", "auth", "parse">>
    ELSE <<"route", "auth", "parse">> \o SubSeq(RuleOrder, 1, RuleIndex(Validate(b).code))

\* ------------------------------------------------------ remote answers
\* HTTP status of an answer; 0 stands for a network error (fetch rejects).
Statuses == {0, 200, 404, 500}
RespOk(status) == status >= 200 /\ status <= 299

\* token field of the exchange answer (undefined also stands for a body
\* that is not JSON: resp.json().catch(() => null))
Token1 == <<"T","1">>
TokenValues == {Undef, Str(<<" ">>), Str(Token1)}

\* default_branch of the repository metadata
DevBranch == <<"d","e","v","/","x">>
DefaultBranchValues == {Undef, Str(MainBranch), Str(DevBranch)}

\* object.sha of the ref answer, sha of the index answer
Sha1 == <<"c","1">>
ShaValues == {Undef, Str(Sha1)}

\* html_url of the pull-request answer
Url1 == <<"u","1">>
UrlValues == {Undef, Str(<<" ">>), Str(<<" ">> \o Url1)}

\* An entry of the index document
IndexEntry(imdb, title, path, created, duration, label) ==
    [ imdb_id |-> imdb, title |-> title, path |-> path, created_at |-> created,
      video_duration_ms |-> duration, label |-> label ]

Entry1 == IndexEntry(Imdb7, <<"A">>, PathGood, <<>>, 0, <<>>)
Entry2 == IndexEntry(ImdbLong, <<"B">>, PathNoExt, DateA, 7, <<"L">>)

RECURSIVE SeqsUpTo(_, _)
SeqsUpTo(S, n) ==
    IF n = 0 THEN {<<>>}
    ELSE LET shorter == SeqsUpTo(S, n - 1) IN
         shorter \cup {Append(q, e) : q \in shorter, e \in S}

MovieLists == SeqsUpTo({Entry1, Entry2}, MaxMovies)

\* A JavaScript value as JSON.parse returns it, as far as the index code
\* looks at it: its type, its movies property (undefined, an array of
\* entries, or something else), the number of its elements when it is an
\* array, and whether it has other keys.
JsVal(t, mt, items, elems, extra) ==
    [t |-> t, movies |-> [t |-> mt, items |-> items], elems |-> elems, extra |-> extra]

EmptyObject == JsVal("obj", "undef", <<>>, 0, FALSE)

IndexValues ==
    { JsVal("obj", "arr", m, 0, FALSE) : m \in MovieLists }
    \cup { JsVal("obj", "arr", <<Entry2>>, 0, TRUE),
           JsVal("obj", "undef", <<>>, 0, TRUE),
           EmptyObject,
           JsVal("obj", "other", <<>>, 0, FALSE),
           JsVal("arr", "undef", <<>>, 0, FALSE),
           JsVal("arr", "undef", <<>>, 2, FALSE),
           JsVal("null", "undef", <<>>, 0, FALSE),
           JsVal("num", "undef", <<>>, 0, FALSE),
           JsVal("str", "undef", <<>>, 0, FALSE) }

\* A text: well-formed JSON denoting val, or not JSON at all
JsonText(v) == [wf |-> TRUE, val |-> v]
MalformedText == [wf |-> FALSE, val |-> EmptyObject]

\* The content field of a file answer or of a file write: absent/empty,
\* not decodable as base64/UTF-8, or the encoding of a text
NoContent == [enc |-> "none", text |-> MalformedText]
BadBase64 == [enc |-> "bad", text |-> MalformedText]
Base64Of(text) == [enc |-> "b64", text |-> text]

IndexContents ==
    {NoContent, BadBase64, Base64Of(MalformedText)}
        \cup {Base64Of(JsonText(v)) : v \in IndexValues}

\* JSON.stringify of a value: an array is written as its elements only, so
\* a movies property set on an array is not part of the text
JSONstringify(v) ==
    JsonText(IF v.t = "arr" THEN [v EXCEPT !.movies = [t |-> "undef", items |-> <<>>]] ELSE v)

\* JSON.parse: the value, or Throws
JSONparse(text) == IF text.wf THEN [ok |-> TRUE, val |-> text.val] ELSE [ok |-> FALSE, val |-> EmptyObject]

\* base64encodeUtf8
base64encodeUtf8(text) == Base64Of(text)


\* encodeURIComponent: unreserved characters stay, the others become %XX
EncodeChar(c) ==
    CASE c = "/" -> <<"%","2","F">>
      [] c = " " -> <<"%","2","0">>
      [] c = "%" -> <<"%","2","5">>
      [] c = "\\" -> <<"%","5","C">>
      [] OTHER -> <<c>>

RECURSIVE encodeURIComponent(_)
encodeURIComponent(s) ==
    IF s = <<>> THEN <<>> ELSE EncodeChar(Head(s)) \o encodeURIComponent(Tail(s))

\* The remote side's decoding of a URL component
DecodeEscape(e) ==
    CASE e = <<"%","2","F">> -> "/"
      [] e = <<"%","2","0">> -> " "
      [] e = <<"%","2","5">> -> "%"
      [] e = <<"%","5","C">> -> "\\"
      [] OTHER -> "?"

RECURSIVE UrlDecode(_)
UrlDecode(s) ==
    IF s = <<>> THEN <<>>
    ELSE IF Head(s) = "%" /\ Len(s) >= 3
         THEN <<DecodeEscape(SubSeq(s, 1, 3))>> \o UrlDecode(SubSeq(s, 4, Len(s)))
    ELSE <<Head(s)>> \o UrlDecode(Tail(s))

\* ------------------------------------------------------------------- state
VARIABLES
    env,        \* the worker's configuration
    now,        \* Date.now()
    pc,         \* pc[r]: where request r's handler stands
    req,        \* req[r]: method, pathname, authorization header
    body,       \* body[r]: the result of request.json()
    evaluated,  \* evaluated[r]: local stages the handler executed
    loc,        \* loc[r]: the handler's local variables
    calls,      \* calls[r]: outbound calls issued for r, oldest first
    resp,       \* resp[r]: the response returned for r
    remote      \* the repository: its branches and the commits made on them

vars == <<env, now, pc, req, body, evaluated, loc, calls, resp, remote>>

\* The inputs a specification draws from: requests, bodies, and the answers
\* of the remote side (tokens per invocation).
Wide ==
    [ requests |-> Requests, bodies |-> Bodies, statuses |-> Statuses,
      tokens |-> [r \in Reqs |-> TokenValues],
      defaultBranches |-> DefaultBranchValues, shas |-> ShaValues,
      indexContents |-> IndexContents, urls |-> UrlValues ]

\* The repository before any invocation
NoRemote == [refs |-> {}, commits |-> {}]

\* A commit made by a successful file write of invocation r
Commit(r, branch, path) == [by |-> r, branch |-> branch, path |-> path]

\* The answer fields of a call
Answer(str, content) == [str |-> str, content |-> content]
NoAnswer == Answer(Undef, NoContent)

\* The fields of an answer are read only when its status is 2xx: the
\* body of any other answer is NoAnswer.
AnswersTo(status, strs, contents) ==
    IF RespOk(status) THEN {Answer(x, c) : x \in strs, c \in contents} ELSE {NoAnswer}

NoRequest == [method |-> "", pathname |-> <<>>, authorization |-> Undef]

NoLocals ==
    [ imdbId |-> <<>>, scenePath |-> <<>>, installationToken |-> <<>>,
      baseBranch |-> <<>>, baseSha |-> <<>>, branch |-> <<>>,
      indexSha |-> <<>>, indexJson |-> EmptyObject ]

\* An outbound call and the status of its answer.
\*   auth:    the bearer credential of the Authorization header
\*   answer:  what the code reads from a 2xx answer: str is the token,
\*            default_branch, object.sha, sha or html_url field, content
\*            the content field of the index answer
\*   branch:  the branch the call addresses (ref of a ref read, of a ref
\*            creation and of a file read, branch of a file write, head of
\*            a pull request), as the remote side reads it
\*   base:    base of a pull request;  sha: sha of a ref creation or write
\*   path:    file path of a contents call
\*   scene:   the scene list whose JSON is the content of the file write
\*   content: the content of the index write
Call(op, auth, status, answer, branch, base, path, sha, scene, content) ==
    [ op |-> op, auth |-> auth, status |-> status, answer |-> answer,
      branch |-> branch, base |-> base,
      path |-> path, sha |-> sha, scene |-> scene, content |-> content ]

\* The signed assertion of mintAppJwt: issuer, issued-at and expiry (seconds)
Jwt(appId, ms) ==
    <<"j","w","t",":">> \o appId \o <<":">> \o ToDigits(ms \div 1000)
        \o <<":">> \o ToDigits((ms \div 1000) + 9 * 60)

Init ==
    /\ env \in Envs
    /\ now = 0
    /\ pc = [r \in Reqs |-> "idle"]
    /\ req = [r \in Reqs |-> NoRequest]
    /\ body = [r \in Reqs |-> UnparsedBody]
    /\ evaluated = [r \in Reqs |-> <<>>]
    /\ loc = [r \in Reqs |-> NoLocals]
    /\ calls = [r \in Reqs |-> <<>>]
    /\ resp = [r \in Reqs |-> NoResponse]
    /\ remote = NoRemote

\* The clock advances
Tick ==
    /\ now < MaxClock
    /\ now' = now + 1
    /\ UNCHANGED <<env, pc, req, body, evaluated, loc, calls, resp, remote>>

\* The handler returns response x
Return(r, x) ==
    /\ resp' = [resp EXCEPT ![r] = x]
    /\ pc' = [pc EXCEPT ![r] = "done"]

\* fetch, lines 104-161: routing, shared secret, body parsing, validation.
\* The body is read only when request.json() is reached.
ReceiveOn(r, P) ==
    /\ pc[r] = "idle"
    /\ \E rq \in P.requests :
        /\ req' = [req EXCEPT ![r] = rq]
        /\ IF ~Routed(rq)
           THEN /\ Return(r, NotFound)
                /\ evaluated' = [evaluated EXCEPT ![r] = <<"route">>]
                /\ UNCHANGED <<body, loc>>
           ELSE IF ~Authorized(env, rq)
           THEN /\ Return(r, jsonError(401, "unauthorized"))
                /\ evaluated' = [evaluated EXCEPT ![r] = <<"route", "auth">>]
                /\ UNCHANGED <<body, loc>>
           ELSE \E b \in P.bodies :
                /\ body' = [body EXCEPT ![r] = b]
                /\ evaluated' = [evaluated EXCEPT ![r] = StagesOf(b)]
                /\ IF Validate(b).kind = "uncaught"
                   THEN /\ pc' = [pc EXCEPT ![r] = "crashed"]
                        /\ UNCHANGED <<resp, loc>>
                   ELSE IF Validate(b) # NoResponse
                   THEN /\ Return(r, Validate(b))
                        /\ UNCHANGED loc
                   ELSE /\ pc' = [pc EXCEPT ![r] = "mint"]
                        /\ loc' = [loc EXCEPT ![r].imdbId = imdbIdOf(b.scene_list),
                                               ![r].scenePath =
                                                   sanitizeScenePath(OrEmpty(b.scene_path))]
                        /\ UNCHANGED resp
    /\ UNCHANGED <<env, now, calls, remote>>

Receive(r) == ReceiveOn(r, Wide)

\* Variant: the test of line 64 for blank credentials is missing
mintAppJwtUnchecked(e, ms) == [ok |-> TRUE, jwt |-> Jwt(Trim(OrEmpty(e.GITHUB_APP_ID)), ms)]

\* mintAppJwt, lines 61-77: Throws, or the signed assertion
mintAppJwt(e, ms) ==
    LET appId == Trim(OrEmpty(e.GITHUB_APP_ID))
        pem == Trim(OrEmpty(e.GITHUB_PRIVATE_KEY_PEM))
    IN  IF appId = <<>> \/ pem = <<>> THEN [ok |-> FALSE, jwt |-> <<>>]
        ELSE IF pem # GoodPem THEN [ok |-> FALSE, jwt |-> <<>>]
        ELSE [ok |-> TRUE, jwt |-> Jwt(appId, ms)]

\* Variant: the test of line 98 for an empty token is missing
ExchangeThrowsOnStatusOnly(status, token) == ~RespOk(status)

\* Lines 95-98: the exchange fails on a non-2xx status or an empty token
ExchangeThrows(status, token) == ~RespOk(status) \/ token = <<>>

\* Variant: the size guardrail answers 413 but the handler carries on
MintGuardFallsThrough(r) ==
    \/ pc[r] = "mint"
    \/ pc[r] = "done" /\ resp[r].code = "payload_too_large" /\ calls[r] = <<>>

\* Line 165 is reached only by a request that passed every local check
MintGuard(r) == pc[r] = "mint"

\* mintInstallationToken, lines 79-100, and its try/catch in fetch, 163-168
MintTokenOn(r, P) ==
    /\ MintGuard(r)
    /\ LET installationId == Trim(OrEmpty(env.GITHUB_INSTALLATION_ID))
           a == mintAppJwt(env, now)
       IN  IF installationId = <<>> \/ ~a.ok
           THEN /\ Return(r, jsonError(500, "auth_failed"))
                /\ UNCHANGED <<loc, calls>>
           ELSE \E st \in P.statuses : \E ans \in AnswersTo(st, P.tokens[r], {NoContent}) :
                LET token == Trim(OrEmpty(ans.str)) IN
                /\ calls' = [calls EXCEPT ![r] = Append(@,
                       Call("exchange", a.jwt, st, ans, <<>>, <<>>, <<>>, <<>>,
                            NoFields("undef"), NoContent))]
                /\ IF ExchangeThrows(st, token)
                   THEN /\ Return(r, jsonError(500, "auth_failed"))
                        /\ UNCHANGED loc
                   ELSE /\ loc' = [loc EXCEPT ![r].installationToken = token]
                        /\ pc' = [pc EXCEPT ![r] = "getRepo"]
                        /\ UNCHANGED resp
    /\ UNCHANGED <<env, now, req, body, evaluated, remote>>

MintToken(r) == MintTokenOn(r, Wide)


\* The catch of fetch, lines 256-258
GithubError == jsonError(500, "github_error")

\* Variant: the status test of line 55 is missing, only a rejected fetch throws
githubFetchThrowsOnNetworkOnly(status) == status = 0

\* githubFetch, lines 38-59: throws when fetch rejects or the status is
\* not 2xx, else returns the parsed answer
githubFetchThrows(status) == ~RespOk(status)

\* A repository call carries the installation token
\* Variant: the installation token is kept in one place shared by all
\* invocations
RepoCallSharedToken(r, op, status, answer, branch, base, path, sha, scene, content) ==
    Call(op, loc[1].installationToken, status, answer, branch, base, path, sha, scene, content)

RepoCall(r, op, status, answer, branch, base, path, sha, scene, content) ==
    Call(op, loc[r].installationToken, status, answer, branch, base, path, sha, scene, content)

Issue(r, c) == calls' = [calls EXCEPT ![r] = Append(@, c)]

\* "refs/heads/<branch>" of the ref creation, and the branch it names
RefsHeads == <<"r","e","f","s","/","h","e","a","d","s","/">>
BranchOfRef(ref) == IF StartsWith(ref, RefsHeads) THEN SubSeq(ref, Len(RefsHeads) + 1, Len(ref)) ELSE ref

\* Variant: the pull request's head names the fallback default branch
HeadOfDefault(branch) == OWNER \o <<":">> \o MainBranch

\* "<owner>:<branch>" of the pull-request head, and the branch it names
HeadOf(branch) == OWNER \o <<":">> \o branch
BranchOfHead(head) ==
    IF StartsWith(head, OWNER \o <<":">>) THEN SubSeq(head, Len(OWNER) + 2, Len(head)) ELSE head

\* Variant: the base branch is always "main"
baseBranchMain(v) == MainBranch

\* Line 175: String(repoInfo?.default_branch || "main")
baseBranchOf(v) == IF OrEmpty(v) # <<>> THEN v.s ELSE MainBranch

\* Variant: the catch deletes the branch of the failed run and its commits
CatchDeletesBranch(r) ==
    [ refs |-> remote.refs \ {loc[r].branch},
      commits |-> {c \in remote.commits : c.branch # loc[r].branch} ]

\* The catch of lines 256-258 issues no call: the repository stays as the
\* failed run left it
Catch(r) == remote

\* A repository step fails: the catch answers github_error
Fail(r) ==
    /\ Return(r, GithubError)
    /\ remote' = Catch(r)

\* Step 1, lines 171-175: repository metadata
GetRepoOn(r, P) ==
    /\ pc[r] = "getRepo"
    /\ \E st \in P.statuses : \E ans \in AnswersTo(st, P.defaultBranches, {NoContent}) :
        /\ Issue(r, RepoCall(r, "getRepo", st, ans, <<>>, <<>>, <<>>, <<>>, NoFields("undef"), NoContent))
        /\ IF githubFetchThrows(st)
           THEN /\ Fail(r)
                /\ UNCHANGED loc
           ELSE /\ loc' = [loc EXCEPT ![r].baseBranch =
                               baseBranchOf(ans.str)]
                /\ pc' = [pc EXCEPT ![r] = "getRef"]
                /\ UNCHANGED <<resp, remote>>
    /\ UNCHANGED <<env, now, req, body, evaluated>>

GetRepo(r) == GetRepoOn(r, Wide)

\* Step 2, lines 177-182: the default branch's ref
GetRefOn(r, P) ==
    /\ pc[r] = "getRef"
    /\ \E st \in P.statuses : \E ans \in AnswersTo(st, P.shas, {NoContent}) :
        /\ Issue(r, RepoCall(r, "getRef", st, ans,
                    UrlDecode(encodeURIComponent(loc[r].baseBranch)),
                    <<>>, <<>>, <<>>, NoFields("undef"), NoContent))
        /\ IF githubFetchThrows(st) \/ OrEmpty(ans.str) = <<>>
           THEN /\ Fail(r)
                /\ UNCHANGED loc
           ELSE /\ loc' = [loc EXCEPT ![r].baseSha = OrEmpty(ans.str)]
                /\ pc' = [pc EXCEPT ![r] = "createRef"]
                /\ UNCHANGED <<resp, remote>>
    /\ UNCHANGED <<env, now, req, body, evaluated>>

GetRef(r) == GetRefOn(r, Wide)

\* `bleepr/upload/${imdbId}/${Date.now()}`
BranchName(imdbId, ms) == BranchPrefix \o imdbId \o <<"/">> \o ToDigits(ms)

\* The statuses the remote side can answer a ref creation with: a ref that
\* exists is not created again (422)
RefStatuses(statuses, branch) ==
    IF branch \in remote.refs
    THEN {st \in statuses \cup {422} : ~RespOk(st)}
    ELSE statuses

\* Step 3, lines 184-190: name the branch and create its ref
CreateRefOn(r, P) ==
    /\ pc[r] = "createRef"
    /\ LET branch == BranchName(loc[r].imdbId, now) IN
       \E st \in RefStatuses(P.statuses, BranchOfRef(RefsHeads \o branch)) :
        /\ Issue(r, RepoCall(r, "createRef", st, NoAnswer, BranchOfRef(RefsHeads \o branch),
                    <<>>, <<>>, loc[r].baseSha, NoFields("undef"), NoContent))
        /\ loc' = [loc EXCEPT ![r].branch = branch]
        /\ IF githubFetchThrows(st)
           THEN Fail(r)
           ELSE /\ pc' = [pc EXCEPT ![r] = "putScene"]
                /\ remote' = [remote EXCEPT !.refs = @ \cup {BranchOfRef(RefsHeads \o branch)}]
                /\ UNCHANGED resp
    /\ UNCHANGED <<env, now, req, body, evaluated>>

CreateRef(r) == CreateRefOn(r, Wide)

\* Variant: file writes name the default branch
WriteBranchDefault(r) == loc[r].baseBranch

\* Lines 199 and 237: the branch field of a file write
WriteBranch(r) == loc[r].branch

\* Step 4, lines 193-201: write the scene file
PutSceneOn(r, P) ==
    /\ pc[r] = "putScene"
    /\ IF ToStringThrows(body[r].scene_list.meta.title)
       THEN /\ Fail(r)
            /\ UNCHANGED calls
       ELSE \E st \in P.statuses :
        /\ Issue(r, RepoCall(r, "putScene", st, NoAnswer, WriteBranch(r), <<>>,
                    ContentsPathOf(loc[r].scenePath), <<>>, body[r].scene_list, NoContent))
        /\ IF githubFetchThrows(st)
           THEN Fail(r)
           ELSE /\ pc' = [pc EXCEPT ![r] = "getIndex"]
                /\ remote' = [remote EXCEPT !.commits =
                                 @ \cup {Commit(r, WriteBranch(r),
                                                ContentsPathOf(loc[r].scenePath))}]
                /\ UNCHANGED resp
    /\ UNCHANGED <<env, now, req, body, evaluated, loc>>

PutScene(r) == PutSceneOn(r, Wide)

\* Lines 210-219: the text of the index answer, parsed and normalised.
\* Precondition: the content is decodable (enc is not "bad").
ParseIndex(content) ==
    LET indexText == IF content.enc = "none" THEN JsonText(EmptyObject) ELSE content.text
        parsed == JSONparse(indexText)
        v1 == IF parsed.ok THEN parsed.val ELSE EmptyObject
        v2 == IF v1.t \in {"obj", "arr"} THEN v1 ELSE EmptyObject
    IN  IF v2.movies.t = "arr" THEN v2 ELSE [v2 EXCEPT !.movies = [t |-> "arr", items |-> <<>>]]

\* Lines 221-228: the entry pushed onto movies
NewEntry(r) ==
    LET m == body[r].scene_list.meta IN
    IndexEntry(loc[r].imdbId, Trim(OrEmpty(m.title)), loc[r].scenePath,
               Trim(OrEmpty(m.created_at)), m.video_duration_ms, Trim(OrEmpty(m.label)))

\* Lines 223-227: String(...) of an entry field throws inside the try
NewEntryThrows(r) ==
    LET m == body[r].scene_list.meta IN
    ToStringThrows(m.title) \/ ToStringThrows(m.created_at) \/ ToStringThrows(m.label)

PushMovie(v, e) == [v EXCEPT !.movies.items = Append(@, e)]

\* Variant: the SHA of the index answer is not kept
indexShaDropped(v) == <<>>

\* Line 208: String(indexResp?.sha || "")
indexShaOf(v) == OrEmpty(v)

\* Step 5, lines 204-228: read the index on the branch, append the entry
GetIndexOn(r, P) ==
    /\ pc[r] = "getIndex"
    /\ \E st \in P.statuses : \E ans \in AnswersTo(st, P.shas, P.indexContents) :
        /\ Issue(r, RepoCall(r, "getIndex", st, ans,
                    UrlDecode(encodeURIComponent(loc[r].branch)),
                    <<>>, IndexPath, <<>>, NoFields("undef"), NoContent))
        /\ IF githubFetchThrows(st) \/ ans.content.enc = "bad" \/ NewEntryThrows(r)
           THEN /\ Fail(r)
                /\ UNCHANGED loc
           ELSE /\ loc' = [loc EXCEPT ![r].indexSha = indexShaOf(ans.str),
                                      ![r].indexJson =
                                          PushMovie(ParseIndex(ans.content), NewEntry(r))]
                /\ pc' = [pc EXCEPT ![r] = "putIndex"]
                /\ UNCHANGED <<resp, remote>>
    /\ UNCHANGED <<env, now, req, body, evaluated>>

GetIndex(r) == GetIndexOn(r, Wide)

\* Step 6, lines 230-239: write the index back
PutIndexOn(r, P) ==
    /\ pc[r] = "putIndex"
    /\ \E st \in P.statuses :
        /\ Issue(r, RepoCall(r, "putIndex", st, NoAnswer, WriteBranch(r), <<>>, IndexPath,
                    loc[r].indexSha, NoFields("undef"),
                    base64encodeUtf8(JSONstringify(loc[r].indexJson))))
        /\ IF githubFetchThrows(st)
           THEN Fail(r)
           ELSE /\ pc' = [pc EXCEPT ![r] = "createPR"]
                /\ remote' = [remote EXCEPT !.commits =
                                 @ \cup {Commit(r, WriteBranch(r), IndexPath)}]
                /\ UNCHANGED resp
    /\ UNCHANGED <<env, now, req, body, evaluated, loc>>

PutIndex(r) == PutIndexOn(r, Wide)

\* Variant: a pull-request answer without html_url is taken as a success
MissingUrlIgnored(prUrl) == FALSE

\* Line 253: if (!prUrl) throw
MissingUrl(prUrl) == prUrl = <<>>

\* Steps 7 and 8, lines 241-255: open the pull request, return its URL
CreatePROn(r, P) ==
    /\ pc[r] = "createPR"
    /\ \E st \in P.statuses : \E ans \in AnswersTo(st, P.urls, {NoContent}) :
        LET prUrl == Trim(OrEmpty(ans.str)) IN
        /\ Issue(r, RepoCall(r, "createPR", st, ans, BranchOfHead(HeadOf(loc[r].branch)),
                    loc[r].baseBranch, <<>>, <<>>, NoFields("undef"), NoContent))
        /\ IF githubFetchThrows(st) \/ MissingUrl(prUrl)
           THEN Fail(r)
           ELSE /\ Return(r, jsonOk(prUrl))
                /\ UNCHANGED remote
    /\ UNCHANGED <<env, now, req, body, evaluated, loc>>

CreatePR(r) == CreatePROn(r, Wide)

Next ==
    \/ Tick
    \/ \E r \in Solo : Receive(r)
    \/ \E r \in Solo : MintToken(r)
    \/ \E r \in Solo : GetRepo(r)
    \/ \E r \in Solo : GetRef(r)
    \/ \E r \in Solo : CreateRef(r)
    \/ \E r \in Solo : PutScene(r)
    \/ \E r \in Solo : GetIndex(r)
    \/ \E r \in Solo : PutIndex(r)
    \/ \E r \in Solo : CreatePR(r)

Spec == Init /\ [][Next]_vars

\* ------------------------------------------------- overlapping invocations
\* Every invocation of Reqs runs, interleaved call by call with the others.
\* The invocations are valid submissions for one of two movies under a
\* complete configuration; each call succeeds or fails; every exchange
\* returns a token of its own.
MainEnv ==
    [ BLEEPR_SUBMIT_KEY |-> Undef, GITHUB_APP_ID |-> Str(<<"7">>),
      GITHUB_PRIVATE_KEY_PEM |-> Str(GoodPem), GITHUB_INSTALLATION_ID |-> Str(<<"9">>) ]

SubmitRequest == [method |-> "POST", pathname |-> SubmitPath, authorization |-> Undef]

GoodBody(imdb) ==
    ParsedBody(SceneListObj(SchemaVersion, Str(imdb), OneScene, MetaPlain), Str(PathGood), 100)

TokenOf(r) == <<"T">> \o ToDigits(r)

Overlap ==
    [ requests |-> {SubmitRequest}, bodies |-> {GoodBody(Imdb7), GoodBody(ImdbUpper)},
      statuses |-> {200, 500},
      tokens |-> [r \in Reqs |-> {Str(TokenOf(r))}],
      defaultBranches |-> {Str(MainBranch)}, shas |-> {Str(Sha1)},
      indexContents |-> {NoContent}, urls |-> {Str(Url1)} ]

InitConc == Init /\ env = MainEnv

NextConc ==
    \/ Tick
    \/ \E r \in Reqs : ReceiveOn(r, Overlap)
    \/ \E r \in Reqs : MintTokenOn(r, Overlap)
    \/ \E r \in Reqs : GetRepoOn(r, Overlap)
    \/ \E r \in Reqs : GetRefOn(r, Overlap)
    \/ \E r \in Reqs : CreateRefOn(r, Overlap)
    \/ \E r \in Reqs : PutSceneOn(r, Overlap)
    \/ \E r \in Reqs : GetIndexOn(r, Overlap)
    \/ \E r \in Reqs : PutIndexOn(r, Overlap)
    \/ \E r \in Reqs : CreatePROn(r, Overlap)

SpecConc == InitConc /\ [][NextConc]_vars

\* ------------------------------------------------------------- type check
TypeOK ==
    /\ now \in 0..MaxClock
    /\ \A r \in Reqs :
        pc[r] \in {"idle", "mint", "getRepo", "getRef", "createRef", "putScene",
                   "getIndex", "putIndex", "createPR", "done", "crashed"}
    /\ \A c \in remote.commits : c.by \in Reqs /\ c.branch \in remote.refs


\* ------------------------------------------------------------------ claims
LocalRejectionCodes ==
    {"unauthorized", "bad_json", "bad_request", "bad_schema", "bad_imdb_id", "no_scenes",
     "too_many_scenes", "bad_scene_path", "payload_too_large"}

RepoOps == <<"getRepo", "getRef", "createRef", "putScene", "getIndex", "putIndex", "createPR">>

OpsOf(r) == [i \in 1..Len(calls[r]) |-> calls[r][i].op]

\* The answer of call c gives the code what it needs to go on
Usable(c) ==
    CASE c.op \in {"exchange", "createPR"} -> Trim(OrEmpty(c.answer.str)) # <<>>
      [] c.op = "getRef" -> OrEmpty(c.answer.str) # <<>>
      [] c.op = "getIndex" -> c.answer.content.enc # "bad"
      [] OTHER -> TRUE

TokenMinted(r) ==
    /\ calls[r] # <<>>
    /\ calls[r][1].op = "exchange"
    /\ RespOk(calls[r][1].status)
    /\ Usable(calls[r][1])

AllCallsOk(r) == \A i \in 1..Len(calls[r]) : RespOk(calls[r][i].status)

\* C1: a request rejected locally (unauthorized, bad_json, bad_request,
\* bad_schema, bad_imdb_id, no_scenes, too_many_scenes, bad_scene_path,
\* payload_too_large) has issued no outbound call, in any state before or
\* after its rejection.
C1_NoCallOnLocalRejection ==
    \A r \in Reqs : resp[r].code \in LocalRejectionCodes => calls[r] = <<>>

C1_Witness ==
    \E r \in Reqs :
        /\ pc[r] = "done"
        /\ resp[r] = jsonError(413, "payload_too_large")
        /\ Len(evaluated[r]) = 9
        /\ calls[r] = <<>>

\* C2 as stated: when the token is minted and every call of a finished run
\* was answered 2xx, the run issued the seven repository calls in order,
\* each of them uses the created branch, and the response is ok with the
\* pull request's URL.
C2_AsStated ==
    \A r \in Reqs :
        (pc[r] = "done" /\ TokenMinted(r) /\ AllCallsOk(r)) =>
            /\ OpsOf(r) = <<"exchange">> \o RepoOps
            /\ \A i \in 2..8 : calls[r][i].branch = calls[r][4].branch
            /\ resp[r] = jsonOk(Trim(OrEmpty(calls[r][8].answer.str)))

\* C2 amended: when every call of a finished run was answered 2xx with a
\* usable answer (a token, a commit SHA, a decodable or empty index content,
\* a pull-request URL), the run issued the token exchange and then exactly
\* the seven repository calls in order; the calls from the ref creation on
\* all address the branch created in step 3; the response is ok with the
\* pull request's URL.  The scene list's title, created_at and label are
\* absent or primitive values (an object there makes String() throw inside
\* the try block between two calls).
C2_SevenCallsInOrder ==
    \A r \in Reqs :
        (/\ pc[r] = "done"
         /\ calls[r] # <<>>
         /\ ~NewEntryThrows(r)
         /\ \A i \in 1..Len(calls[r]) : RespOk(calls[r][i].status) /\ Usable(calls[r][i])) =>
            /\ OpsOf(r) = <<"exchange">> \o RepoOps
            /\ calls[r][4].branch = loc[r].branch
            /\ \A i \in 4..8 : calls[r][i].branch = calls[r][4].branch
            /\ resp[r] = jsonOk(Trim(OrEmpty(calls[r][8].answer.str)))

C2_Witness ==
    \E r \in Reqs :
        /\ pc[r] = "done"
        /\ resp[r].ok
        /\ resp[r].pr_url = Url1
        /\ Len(calls[r]) = 8
        /\ AllCallsOk(r)

\* C3: fail-stop. A repository call that failed (network error or non-2xx
\* status) is the last call of its run, the run is finished with
\* github_error, and no call is issued twice in a run.
C3_FailStop ==
    \A r \in Reqs :
        /\ \A i \in 1..Len(calls[r]) :
            (calls[r][i].op # "exchange" /\ ~RespOk(calls[r][i].status)) =>
                /\ i = Len(calls[r])
                /\ pc[r] = "done"
                /\ resp[r] = jsonError(500, "github_error")
        /\ \A i, j \in 1..Len(calls[r]) : i < j => calls[r][i].op # calls[r][j].op

C3_Witness ==
    \E r \in Reqs :
        /\ Len(calls[r]) = 4
        /\ calls[r][4].op = "createRef"
        /\ calls[r][4].status = 500
        /\ pc[r] = "done"
        /\ resp[r].code = "github_error"

\* C4: every file write (scene file, index) addresses the branch created by
\* an earlier, successful ref creation of the same run, which is not the
\* default branch; the default branch is addressed by the ref read only.
C4_WritesOnCreatedBranch ==
    \A r \in Reqs : \A i \in 1..Len(calls[r]) :
        /\ calls[r][i].op \in {"putScene", "putIndex"} =>
            /\ \E j \in 1..(i - 1) :
                /\ calls[r][j].op = "createRef"
                /\ RespOk(calls[r][j].status)
                /\ calls[r][j].branch = calls[r][i].branch
            /\ calls[r][i].branch # loc[r].baseBranch
        /\ (loc[r].baseBranch # <<>> /\ calls[r][i].branch = loc[r].baseBranch) =>
                calls[r][i].op = "getRef"

C4_Witness ==
    \E r \in Reqs :
        /\ Len(calls[r]) >= 7
        /\ calls[r][5].op = "putScene"
        /\ calls[r][7].op = "putIndex"
        /\ calls[r][7].branch = BranchName(loc[r].imdbId, 1)
        /\ loc[r].baseBranch = DevBranch

\* C5: an index write directly follows a successful index read of the same
\* run, addresses the same path (index.json) and the same branch as that
\* read, and carries the SHA that read returned.
C5_IndexWriteMatchesRead ==
    \A r \in Reqs : \A i \in 1..Len(calls[r]) :
        calls[r][i].op = "putIndex" =>
            /\ i > 1
            /\ calls[r][i - 1].op = "getIndex"
            /\ RespOk(calls[r][i - 1].status)
            /\ calls[r][i].path = IndexPath
            /\ calls[r][i].path = calls[r][i - 1].path
            /\ calls[r][i].branch = calls[r][i - 1].branch
            /\ calls[r][i].sha = OrEmpty(calls[r][i - 1].answer.str)

C5_Witness ==
    \E r \in Reqs : \E i \in 1..Len(calls[r]) :
        /\ calls[r][i].op = "putIndex"
        /\ calls[r][i].sha = Sha1
        /\ calls[r][i - 1].answer.str = Str(Sha1)


\* The movies list of an index content as read: its entries when the
\* content is the JSON text of a value with a movies array, else none
MoviesRead(c) ==
    IF c.enc = "b64" /\ c.text.wf /\ c.text.val.movies.t = "arr"
    THEN c.text.val.movies.items
    ELSE <<>>

\* C6 as stated: whatever content the index read returned, the document
\* written back is valid JSON whose movies list is the list that was read
\* (empty if there was none), unchanged and in order, followed by exactly one
\* new entry built from the submitted scene list.
C6_AsStated ==
    \A r \in Reqs : \A i \in 1..Len(calls[r]) :
        calls[r][i].op = "putIndex" =>
            LET read == calls[r][i - 1].answer.content
                written == calls[r][i].content
            IN  /\ written.enc = "b64"
                /\ written.text.wf
                /\ written.text.val.movies.t = "arr"
                /\ written.text.val.movies.items = MoviesRead(read) \o <<NewEntry(r)>>

\* The index read reports the document absent: 404, or 2xx without content
IndexAbsent(c) ==
    /\ c.op = "getIndex"
    /\ \/ c.status = 404
       \/ RespOk(c.status) /\ c.answer.content.enc = "none"

\* C7 as stated: when the index document is absent on the new branch and
\* every other call of the run succeeds, the finished run has written the
\* index {movies: [entry]} and gone on to the pull-request call.
C7_AsStated ==
    \A r \in Reqs : \A i \in 1..Len(calls[r]) :
        (/\ IndexAbsent(calls[r][i])
         /\ pc[r] = "done"
         /\ \A j \in 1..Len(calls[r]) : j # i => RespOk(calls[r][j].status)) =>
            /\ Len(calls[r]) = i + 2
            /\ calls[r][i + 1].op = "putIndex"
            /\ calls[r][i + 1].content.text.val.movies.items = <<NewEntry(r)>>
            /\ calls[r][i + 2].op = "createPR"

\* C8: when the token exchange fails (network error, non-2xx status, or an
\* answer without a non-blank token), the exchange is the run's only call,
\* the run is finished and the response is 500 auth_failed.
C8_ExchangeFailure ==
    \A r \in Reqs :
        (/\ calls[r] # <<>>
         /\ calls[r][1].op = "exchange"
         /\ ~RespOk(calls[r][1].status) \/ ~Usable(calls[r][1])) =>
            /\ Len(calls[r]) = 1
            /\ pc[r] = "done"
            /\ resp[r] = jsonError(500, "auth_failed")

C8_Witness ==
    \E r \in Reqs :
        /\ Len(calls[r]) = 1
        /\ calls[r][1].op = "exchange"
        /\ calls[r][1].status = 200
        /\ calls[r][1].answer.str = Undef
        /\ resp[r].code = "auth_failed"

\* The application id or the private key is absent or blank
CredentialsBlank(e) ==
    \/ Trim(OrEmpty(e.GITHUB_APP_ID)) = <<>>
    \/ Trim(OrEmpty(e.GITHUB_PRIVATE_KEY_PEM)) = <<>>

\* Request r passed every local check and its minting step has run
MintingRan(r) ==
    /\ pc[r] \notin {"idle", "mint"}
    /\ body[r].parsed
    /\ Validate(body[r]) = NoResponse

\* C9 as stated: with a blank application id or private key, minting fails
\* with the code auth_config_error, distinct from auth_failed, and without
\* an outbound call.
C9_AsStated ==
    \A r \in Reqs :
        (CredentialsBlank(env) /\ MintingRan(r)) =>
            /\ resp[r].code = "auth_config_error"
            /\ resp[r].code # "auth_failed"
            /\ calls[r] = <<>>

\* C9 amended: with a blank application id or private key, minting fails
\* without an outbound call and the response is 500 auth_failed, the code of
\* every other minting failure.
C9_BlankCredentialsAuthFailed ==
    \A r \in Reqs :
        (CredentialsBlank(env) /\ MintingRan(r)) =>
            /\ pc[r] = "done"
            /\ resp[r] = jsonError(500, "auth_failed")
            /\ calls[r] = <<>>

C9_Witness ==
    \E r \in Reqs :
        /\ CredentialsBlank(env)
        /\ Trim(OrEmpty(env.GITHUB_INSTALLATION_ID)) # <<>>
        /\ MintingRan(r)
        /\ resp[r].code = "auth_failed"

\* Rule k of the validator, taken alone, is violated by body b
Violates(b, k) ==
    CASE k = 1 -> ~IsJsObject(b.scene_list)
      [] k = 2 -> b.scene_list.schema_version # SchemaVersion
      [] k = 3 -> \/ ToStringThrows(b.scene_list.imdb_id)
                  \/ ~ImdbRegex(ToLowerCase(Trim(OrEmpty(b.scene_list.imdb_id))))
      [] k = 4 -> \/ ~b.scene_list.scenes.isArray
                  \/ b.scene_list.scenes.length = 0
                  \/ b.scene_list.scenes.length > MaxScenes
      [] k = 5 -> \/ ToStringThrows(b.scene_path)
                  \/ sanitizeScenePath(OrEmpty(b.scene_path)) = <<>>
      [] OTHER -> b.bytes > MaxBytes

ViolatedRules(b) == {k \in 1..6 : Violates(b, k)}

FirstViolated(b) == CHOOSE k \in ViolatedRules(b) : \A j \in ViolatedRules(b) : k <= j

CodeOfRule(b, k) ==
    CASE k = 1 -> "bad_request"
      [] k = 2 -> "bad_schema"
      [] k = 3 -> "bad_imdb_id"
      [] k = 4 -> IF b.scene_list.scenes.isArray /\ b.scene_list.scenes.length > MaxScenes
                  THEN "too_many_scenes" ELSE "no_scenes"
      [] k = 5 -> "bad_scene_path"
      [] OTHER -> "payload_too_large"

ValidationCodes ==
    {"bad_request", "bad_schema", "bad_imdb_id", "no_scenes", "too_many_scenes",
     "bad_scene_path", "payload_too_large"}

\* C10: for a parsed body the reported code is the code of the first
\* violated rule in the order scene_list, schema_version, imdb_id, scenes,
\* scene_path, size; no later rule is evaluated; a body violating no rule
\* gets no validation code.
C10_FirstViolatedRuleWins ==
    \A r \in Reqs :
        (pc[r] # "idle" /\ body[r].parsed) =>
            IF ViolatedRules(body[r]) = {}
            THEN resp[r].code \notin ValidationCodes
            ELSE /\ resp[r].code = CodeOfRule(body[r], FirstViolated(body[r]))
                 /\ evaluated[r] =
                        <<"route", "auth", "parse">>
                            \o SubSeq(RuleOrder, 1, FirstViolated(body[r]))

C10_Witness ==
    \E r \in Reqs :
        /\ body[r].parsed
        /\ ViolatedRules(body[r]) = {3, 4, 5, 6}
        /\ resp[r].code = "bad_imdb_id"

\* The scene_path conditions the claim lists, on the trimmed value
ScenePathListedBad(v) ==
    LET p == Trim(OrEmpty(v)) IN
    \/ p = <<>>
    \/ StartsWith(p, <<"/">>)
    \/ Includes(p, <<".", ".">>)
    \/ Includes(p, <<"\\">>)
    \/ ~StartsWith(p, ScenePrefix)
    \/ ~EndsWith(p, SceneExt)
    \/ Len(p) > MaxPathLen

\* C11 as stated: a submission passing rules 1-4 whose scene_path is empty,
\* absolute, has ".." or a backslash, lacks the scenejsons/ prefix or the
\* .json ending, or is longer than 180 characters gets bad_scene_path; and
\* the path addressed by every scene-file write call starts with
\* scenejsons/, ends in .json and has no ".." in it.
C11_AsStated ==
    \A r \in Reqs :
        /\ (/\ pc[r] # "idle"
            /\ body[r].parsed
            /\ ViolatedRules(body[r]) \cap 1..4 = {}
            /\ ~ToStringThrows(body[r].scene_path)
            /\ ScenePathListedBad(body[r].scene_path)) => resp[r].code = "bad_scene_path"
        /\ \A i \in 1..Len(calls[r]) :
            calls[r][i].op = "putScene" =>
                /\ StartsWith(calls[r][i].path, ScenePrefix)
                /\ EndsWith(calls[r][i].path, SceneExt)
                /\ ~Includes(calls[r][i].path, <<".", ".">>)

\* C12 as stated: with a configured secret, a request to the submit endpoint
\* whose authorization header is not exactly "Bearer " followed by the
\* configured value is answered unauthorized.
C12_AsStated ==
    \A r \in Reqs :
        (/\ pc[r] # "idle"
         /\ Routed(req[r])
         /\ OrEmpty(env.BLEEPR_SUBMIT_KEY) # <<>>
         /\ OrEmpty(req[r].authorization) # BearerPrefix \o OrEmpty(env.BLEEPR_SUBMIT_KEY)) =>
            resp[r] = jsonError(401, "unauthorized")

\* C12 amended: the secret is the configured value without its surrounding
\* whitespace.  When it is not empty, a request to the submit endpoint whose
\* authorization header is not exactly "Bearer " followed by it is answered
\* 401 unauthorized before anything else: the body is not read, no
\* validator rule is evaluated, no outbound call is made.
C12_UnauthorizedFirst ==
    \A r \in Reqs :
        (/\ pc[r] # "idle"
         /\ Routed(req[r])
         /\ Trim(OrEmpty(env.BLEEPR_SUBMIT_KEY)) # <<>>
         /\ OrEmpty(req[r].authorization)
                # BearerPrefix \o Trim(OrEmpty(env.BLEEPR_SUBMIT_KEY))) =>
            /\ pc[r] = "done"
            /\ resp[r] = jsonError(401, "unauthorized")
            /\ evaluated[r] = <<"route", "auth">>
            /\ body[r] = UnparsedBody
            /\ loc[r] = NoLocals
            /\ calls[r] = <<>>

C12_Witness ==
    \E r \in Reqs :
        /\ resp[r] = jsonError(401, "unauthorized")
        /\ env.BLEEPR_SUBMIT_KEY = Str(Secret \o <<"\n">>)
        /\ req[r].authorization = Str(BearerPrefix \o <<"x">>)
        /\ calls[r] = <<>>

\* The status the claim gives to each error code
StatusOfCode(code) ==
    CASE code \in {"bad_json", "bad_request", "bad_schema", "bad_imdb_id", "no_scenes",
                   "too_many_scenes", "bad_scene_path"} -> 400
      [] code = "unauthorized" -> 401
      [] code = "payload_too_large" -> 413
      [] code \in {"auth_failed", "github_error"} -> 500
      [] OTHER -> 0

\* C13 as stated: the status follows the error code, a success status comes
\* only with ok:true, and every request whose method is not POST or whose
\* path is not /submit-scene gets 404.
C13_AsStated ==
    \A r \in Reqs :
        pc[r] = "done" =>
            /\ resp[r].code # "" => resp[r].status = StatusOfCode(resp[r].code)
            /\ resp[r].status \in 200..299 => resp[r].ok
            /\ (req[r].method # "POST" \/ req[r].pathname # SubmitPath) =>
                   resp[r].status = 404

\* C13 amended: as stated, the submit path being /submit-scene with or
\* without one trailing slash.  Every response is the 404 text, an error
\* with a listed code and that code's status, or ok:true with status 200;
\* 404 is returned exactly for the requests that are not a POST to the
\* submit path.
C13_StatusByOutcome ==
    \A r \in Reqs :
        pc[r] = "done" =>
            /\ resp[r].status \in {200, 400, 401, 404, 413, 500}
            /\ resp[r].code # "" =>
                   /\ StatusOfCode(resp[r].code) # 0
                   /\ resp[r].status = StatusOfCode(resp[r].code)
                   /\ ~resp[r].ok
            /\ resp[r].status \in 200..299 <=> resp[r].ok
            /\ resp[r].ok => resp[r].code = ""
            /\ resp[r].status = 404 <=>
                   (req[r].method # "POST"
                    \/ req[r].pathname \notin {SubmitPath, SubmitPath \o <<"/">>})
            /\ resp[r].status = 404 <=> resp[r] = NotFound

C13_Witness ==
    \E r \in Reqs :
        /\ pc[r] = "done"
        /\ resp[r].status = 413
        /\ resp[r].code = "payload_too_large"
        /\ req[r].pathname = SubmitPath \o <<"/">>

\* The default branch named by a step-1 answer: its default_branch, or
\* "main" when the answer names none
NamedBy(answer) == IF answer.str.def /\ answer.str.s # <<>> THEN answer.str.s ELSE MainBranch

\* C18: a ref-creation call follows a successful metadata read and a
\* successful ref read of the default branch that read named, and carries
\* exactly the commit SHA the ref read returned; a ref read without SHA is
\* the last call.  A pull-request call follows a successful scene write and
\* a successful index write on the branch created in step 3; its head is
\* that branch and its base the default branch of step 1.
C18_ValuesFlow ==
    \A r \in Reqs : \A i \in 1..Len(calls[r]) :
        LET c == calls[r] IN
        /\ c[i].op = "getRef" =>
               /\ i = 3
               /\ c[2].op = "getRepo" /\ RespOk(c[2].status)
               /\ c[i].branch = NamedBy(c[2].answer)
               /\ (RespOk(c[i].status) /\ OrEmpty(c[i].answer.str) = <<>>) =>
                      (i = Len(c) /\ resp[r].code = "github_error")
        /\ c[i].op = "createRef" =>
               /\ i = 4
               /\ c[3].op = "getRef" /\ RespOk(c[3].status)
               /\ c[3].answer.str.def
               /\ c[i].sha = c[3].answer.str.s
               /\ c[i].sha # <<>>
        /\ c[i].op = "createPR" =>
               /\ i = 8
               /\ c[4].op = "createRef" /\ RespOk(c[4].status)
               /\ c[5].op = "putScene" /\ RespOk(c[5].status) /\ c[5].branch = c[4].branch
               /\ c[7].op = "putIndex" /\ RespOk(c[7].status) /\ c[7].branch = c[4].branch
               /\ c[i].branch = c[4].branch
               /\ c[i].base = NamedBy(c[2].answer)
               /\ c[i].base = c[3].branch

C18_Witness ==
    \E r \in Reqs :
        /\ Len(calls[r]) = 8
        /\ calls[r][2].answer.str = Str(DevBranch)
        /\ calls[r][4].sha = Sha1
        /\ calls[r][8].op = "createPR"
        /\ calls[r][8].base = DevBranch
        /\ calls[r][8].branch = calls[r][4].branch

\* The run issued the exchange and the seven repository calls, all answered 2xx
AllEightOk(r) == OpsOf(r) = <<"exchange">> \o RepoOps /\ AllCallsOk(r)

\* C19 as stated: ok:true exactly when the exchange and the seven repository
\* calls succeeded and the pull-request answer carried a non-empty URL.
C19_AsStated ==
    \A r \in Reqs :
        pc[r] = "done" =>
            (resp[r].ok <=> (AllEightOk(r) /\ OrEmpty(calls[r][8].answer.str) # <<>>))

\* C19 amended: ok:true exactly when the exchange and the seven repository
\* calls succeeded and the pull-request answer carried a URL that is not
\* blank; a successful pull-request call whose answer has no such URL gives
\* github_error; every ok:true response carries that URL, trimmed and not
\* empty.
C19_OkIffAllSucceeded ==
    \A r \in Reqs :
        pc[r] = "done" =>
            /\ resp[r].ok <=>
                   (AllEightOk(r) /\ Trim(OrEmpty(calls[r][8].answer.str)) # <<>>)
            /\ (AllEightOk(r) /\ Trim(OrEmpty(calls[r][8].answer.str)) = <<>>) =>
                   (resp[r].code = "github_error" /\ resp[r].status = 500)
            /\ resp[r].ok =>
                   /\ resp[r].pr_url # <<>>
                   /\ resp[r].pr_url = Trim(calls[r][8].answer.str.s)

C19_Witness ==
    \E r \in Reqs :
        /\ pc[r] = "done"
        /\ AllEightOk(r)
        /\ calls[r][8].answer.str = Undef
        /\ resp[r].code = "github_error"

\* The handler of request r is still running (or has not started)
Running(r) ==
    pc[r] \in {"idle", "mint", "getRepo", "getRef", "createRef", "putScene", "getIndex",
               "putIndex", "createPR"}

\* C20 as stated, its safety part: no failure escapes the handler, so a
\* handler that has stopped has produced a response.
C20_AsStated ==
    \A r \in Reqs : ~Running(r) => resp[r] # NoResponse

\* C16: no rollback.  Every call of a run is the exchange or one of the
\* seven repository calls (none deletes or closes anything); the branch of
\* every successful ref creation and the commit of every successful file
\* write are in the repository, also after a later step of the run failed;
\* and a run whose repository call failed answers github_error with status
\* 500, whichever step it was.
C16_NoRollback ==
    \A r \in Reqs :
        /\ \A i \in 1..Len(calls[r]) :
            LET c == calls[r][i] IN
            /\ c.op \in {"exchange", "getRepo", "getRef", "createRef", "putScene", "getIndex",
                         "putIndex", "createPR"}
            /\ (c.op = "createRef" /\ RespOk(c.status)) => c.branch \in remote.refs
            /\ (c.op \in {"putScene", "putIndex"} /\ RespOk(c.status)) =>
                   Commit(r, c.branch, c.path) \in remote.commits
            /\ (c.op # "exchange" /\ ~RespOk(c.status)) =>
                   resp[r] = [kind |-> "json", status |-> 500, ok |-> FALSE,
                              code |-> "github_error", pr_url |-> <<>>]
        /\ (pc[r] = "done" /\ resp[r].code = "github_error") =>
               Len(calls[r]) \in 2..8

C16_Witness ==
    \E r \in Reqs :
        /\ pc[r] = "done"
        /\ resp[r].code = "github_error"
        /\ Len(calls[r]) = 7
        /\ calls[r][7].op = "putIndex"
        /\ ~RespOk(calls[r][7].status)
        /\ calls[r][4].branch \in remote.refs
        /\ Commit(r, calls[r][5].branch, calls[r][5].path) \in remote.commits

\* C14 as stated: any two distinct attempts that named a branch named
\* different branches, and no ref creation is refused because its branch
\* exists.
C14_AsStated ==
    /\ \A r1 \in Reqs : \A r2 \in Reqs \ {r1} :
           (loc[r1].branch # <<>> /\ loc[r2].branch # <<>>) => loc[r1].branch # loc[r2].branch
    /\ \A r \in Reqs : \A i \in 1..Len(calls[r]) :
           calls[r][i].op = "createRef" => calls[r][i].status # 422

\* Invocation r created branch b: its ref-creation call for b succeeded
CreatedBy(r, b) ==
    \E i \in 1..Len(calls[r]) :
        calls[r][i].op = "createRef" /\ RespOk(calls[r][i].status) /\ calls[r][i].branch = b

\* C15: every scene-file write, index read and index write of an invocation
\* addresses a branch that this invocation created and no other invocation
\* created; every commit in the repository is on a branch created by the
\* invocation that made the commit.
C15_WritesOnOwnBranch ==
    /\ \A r \in Reqs : \A i \in 1..Len(calls[r]) :
           calls[r][i].op \in {"putScene", "getIndex", "putIndex"} =>
               /\ CreatedBy(r, calls[r][i].branch)
               /\ \A o \in Reqs \ {r} : ~CreatedBy(o, calls[r][i].branch)
    /\ \A c \in remote.commits :
           CreatedBy(c.by, c.branch) /\ \A o \in Reqs \ {c.by} : ~CreatedBy(o, c.branch)

\* Two invocations named the same branch; the one whose ref creation was
\* refused wrote nothing, the other wrote its index
C15_Witness ==
    \E r1 \in Reqs : \E r2 \in Reqs \ {r1} :
        /\ loc[r1].branch = loc[r2].branch
        /\ loc[r1].branch # <<>>
        /\ CreatedBy(r1, loc[r1].branch)
        /\ Commit(r1, loc[r1].branch, IndexPath) \in remote.commits
        /\ pc[r2] = "done"
        /\ calls[r2][Len(calls[r2])].op = "createRef"
        /\ calls[r2][Len(calls[r2])].status = 422

\* C17: in every invocation the signed assertion is the credential of the
\* first call, the exchange, and of no other call; every repository call
\* carries the token the invocation's own exchange returned; no call
\* carries the token returned to another invocation.
C17_OwnCredentials ==
    \A r \in Reqs : \A i \in 1..Len(calls[r]) :
        LET c == calls[r] IN
        /\ c[i].op = "exchange" <=> i = 1
        /\ i = 1 => \E ms \in 0..MaxClock : c[i].auth = Jwt(Trim(OrEmpty(env.GITHUB_APP_ID)), ms)
        /\ i > 1 =>
               /\ RespOk(c[1].status)
               /\ c[i].auth = Trim(OrEmpty(c[1].answer.str))
               /\ c[i].auth # <<>>
               /\ c[i].auth # c[1].auth
               /\ \A o \in Reqs \ {r} :
                      calls[o] # <<>> => c[i].auth # Trim(OrEmpty(calls[o][1].answer.str))

C17_Witness ==
    \E r1 \in Reqs : \E r2 \in Reqs \ {r1} :
        /\ Len(calls[r1]) = 8
        /\ Len(calls[r2]) >= 3
        /\ pc[r2] # "done"
        /\ calls[r1][8].auth = TokenOf(r1)
        /\ calls[r2][3].auth = TokenOf(r2)

====
